---------------------------- MODULE Spec2Model ----------------------------
(***************************************************************************)
(* A model of the keno-tracker analyzer (src/analyzer.py): the board       *)
(* topology, the tolerant number-list parser, the scoring and ranking      *)
(* stages and the alert decision of run_analyzer.                          *)
(*                                                                         *)
(* Text is a sequence of one-character strings.  A z-score is kept exactly *)
(* as [num, rad], standing for num / sqrt(rad); cluster and weighted       *)
(* scores are exact fractions [num, den, rad], standing for                *)
(* num / (den * sqrt(rad)), where the code rounds to double precision.  A  *)
(* confidence is kept as the whole percent it has reached (the floor of    *)
(* norm_cdf(z) * 100).                                                     *)
(***************************************************************************)
EXTENDS Integers, Sequences, FiniteSets, TLC

(***************************************************************************)
(* Configuration (src/analyzer.py, lines 21-38).                           *)
(***************************************************************************)
GAMES_TO_ANALYZE == 500
MIN_GAMES_REQUIRED == 100
ALERT_THRESHOLD == 90
MIN_NUMBERS_FOR_ALERT == 3
BOARD_ROWS == 8
BOARD_COLS == 10
\* range(1, 81): the numbers of the board.
LastNumber == 80
\* ranked[:10] in select_top_10.
TopK == 10

Numbers == 1..LastNumber

(***************************************************************************)
(* Bounds of the model.                                                    *)
(***************************************************************************)
\* Stored files hold MIN_GAMES_REQUIRED - 1 .. MIN_GAMES_REQUIRED + MaxExtra rows.
MaxExtra == 1
\* The first game identifier of a stored file is FirstGameId + 1.
FirstGameId == 997
\* Long stored files hold GAMES_TO_ANALYZE - 1 .. GAMES_TO_ANALYZE + MaxOver rows.
MaxOver == 1
\* build_email_html is given at most MaxConfident numbers at or above the threshold.
MaxConfident == 3

(***************************************************************************)
(* Text.                                                                   *)
(***************************************************************************)
DecimalChars == <<"0", "1", "2", "3", "4", "5", "6", "7", "8", "9">>

\* The characters int() reads as a decimal digit.
IsDecimalChar(c) == \E i \in 1..10 : DecimalChars[i] = c

DigitValue(c) == (CHOOSE i \in 1..10 : DecimalChars[i] = c) - 1

\* U+00B2, SUPERSCRIPT TWO: a digit for str.isdigit(), no decimal for int().
SuperscriptTwo == "sup2"

\* The characters str.isdigit() accepts.
IsDigitChar(c) == IsDecimalChar(c) \/ c = SuperscriptTwo

\* The characters str.strip() removes.
IsSpaceChar(c) == c = " "

\* str.isdigit(): true when the string is not empty and all its characters are digits.
isdigit(s) == Len(s) > 0 /\ \A i \in 1..Len(s) : IsDigitChar(s[i])

\* str.strip().
RECURSIVE lstrip(_)
lstrip(s) == IF Len(s) > 0 /\ IsSpaceChar(s[1]) THEN lstrip(Tail(s)) ELSE s

RECURSIVE rstrip(_)
rstrip(s) ==
    IF Len(s) > 0 /\ IsSpaceChar(s[Len(s)]) THEN rstrip(SubSeq(s, 1, Len(s) - 1)) ELSE s

strip(s) == rstrip(lstrip(s))

\* str.replace(old, new) for one-character old and new.
replace(s, old, new) == [i \in 1..Len(s) |-> IF s[i] = old THEN new ELSE s[i]]

\* str.split(sep) for a one-character sep: k separators give k + 1 parts, part p
\* lying between the (p-1)-th and the p-th separator.
split(s, sep) ==
    LET at == SelectSeq([i \in 1..Len(s) |-> i], LAMBDA i : s[i] = sep)
        from(p) == IF p = 1 THEN 1 ELSE at[p - 1] + 1
        to(p) == IF p = Len(at) + 1 THEN Len(s) ELSE at[p] - 1
    IN  [p \in 1..(Len(at) + 1) |-> SubSeq(s, from(p), to(p))]

\* The value int() gives a string of decimal digits.
RECURSIVE DecimalValue(_)
DecimalValue(s) ==
    IF Len(s) = 0 THEN 0
    ELSE 10 * DecimalValue(SubSeq(s, 1, Len(s) - 1)) + DigitValue(s[Len(s)])

\* int(s): a ValueError unless s is a non-empty string of decimal digits.
IntRaises(s) == Len(s) = 0 \/ \E i \in 1..Len(s) : ~IsDecimalChar(s[i])

\* str(n) for n >= 0.
RECURSIVE str(_)
str(n) == IF n < 10 THEN <<DecimalChars[n + 1]>> ELSE Append(str(n \div 10), DecimalChars[(n % 10) + 1])

(***************************************************************************)
(* Board layout.                                                           *)
(***************************************************************************)
get_position(number) ==
    LET n == number - 1 IN [row |-> n \div BOARD_COLS, col |-> n % BOARD_COLS]

\* The (dr, dc) pairs in the order the two loops of get_neighbors visit them.
Offsets ==
    << <<-1, -1>>, <<-1, 0>>, <<-1, 1>>,
       << 0, -1>>, << 0, 0>>, << 0, 1>>,
       << 1, -1>>, << 1, 0>>, << 1, 1>> >>

\* The loop body without the test on the column: a neighbor past the right or left
\* edge lands on the next or previous row.
NeighborAtWrapping(row, col, i) ==
    LET dr == Offsets[i][1]
        dc == Offsets[i][2]
        r == row + dr
        c == col + dc
        m == r * BOARD_COLS + c + 1
    IN  IF dr = 0 /\ dc = 0 THEN <<>>
        ELSE IF 0 <= r /\ r < BOARD_ROWS /\ 1 <= m /\ m <= BOARD_ROWS * BOARD_COLS
             THEN <<m>>
             ELSE <<>>

\* One pass of the loop body: the neighbor for offset i, or nothing.
NeighborAt(row, col, i) ==
    LET dr == Offsets[i][1]
        dc == Offsets[i][2]
        r == row + dr
        c == col + dc
    IN  IF dr = 0 /\ dc = 0 THEN <<>>
        ELSE IF 0 <= r /\ r < BOARD_ROWS /\ 0 <= c /\ c < BOARD_COLS
             THEN <<r * BOARD_COLS + c + 1>>
             ELSE <<>>

RECURSIVE NeighborsFrom(_, _, _)
NeighborsFrom(row, col, i) ==
    IF i > Len(Offsets) THEN <<>>
    ELSE NeighborAt(row, col, i) \o NeighborsFrom(row, col, i + 1)

get_neighbors(number) ==
    LET p == get_position(number) IN NeighborsFrom(p.row, p.col, 1)

\* The region with the bands cut one row and one column later.
RegionBandsShifted(number) ==
    LET p == get_position(number)
        vertical == IF p.row <= 3 THEN "Top" ELSE IF p.row <= 5 THEN "Middle" ELSE "Bottom"
        horizontal == IF p.col <= 4 THEN "Left" ELSE IF p.col <= 6 THEN "Center" ELSE "Right"
    IN  vertical \o "-" \o horizontal

get_board_region(number) ==
    LET p == get_position(number)
        vertical == IF p.row < 3 THEN "Top" ELSE IF p.row < 5 THEN "Middle" ELSE "Bottom"
        horizontal == IF p.col < 4 THEN "Left" ELSE IF p.col < 6 THEN "Center" ELSE "Right"
    IN  vertical \o "-" \o horizontal

(***************************************************************************)
(* Statistics.  A z-score [num, rad] stands for num / sqrt(rad).           *)
(***************************************************************************)
\* p = 20/80: expected = n/4 and std_dev = sqrt(3n/16), so that
\* (observed - expected) / std_dev = (4*observed - n) / sqrt(3n).
calculate_z_score(observed, n_games) ==
    IF 3 * n_games = 0 THEN [num |-> 0, rad |-> 1]
    ELSE [num |-> 4 * observed - n_games, rad |-> 3 * n_games]

\* QuantileSq[k] is the square, in millionths, of the z at which
\* norm_cdf(z) * 100 reaches 50 + k percent; the last entry is the z from which
\* the floating-point product is 100.0.
QuantileSq ==
    << 628, 2515, 5666, 10087, 15791, 22792, 31108, 40761, 51777, 64185,
       78019, 93319, 110127, 128493, 148472, 170126, 193524, 218742, 245868, 274996,
       306235, 339704, 375540, 413893, 454936, 498863, 545895, 596282, 650315, 708326,
       770702, 837893, 910431, 988946, 1074194, 1167090, 1268757, 1380594, 1504371, 1642374,
       1797624, 1974226, 2177959, 2417321, 2705543, 3064902, 3537385, 4217885, 5411894,
       67964000 >>

\* The sign of z^2 - QuantileSq[k] / 10^6, that is of num^2 * 10^6 - QuantileSq[k] * rad,
\* computed in two base-10^4 limbs to stay within 32 bits; needs num^2 < 68 * rad.
CompareQuantile(z, k) ==
    LET t == QuantileSq[k]
        low == (t % 10000) * z.rad
        hi == (t \div 10000) * z.rad + (low \div 10000)
        lo == low % 10000
        a == z.num * z.num * 100
    IN  IF a > hi THEN 1
        ELSE IF a < hi THEN -1
        ELSE IF lo = 0 THEN 0 ELSE -1

\* norm_cdf(z) * 100.0, rounded down to a whole percent.
z_to_confidence(z) ==
    IF z.num * z.num >= 68 * z.rad THEN (IF z.num > 0 THEN 100 ELSE 0)
    ELSE IF z.num >= 0
         THEN 50 + Cardinality({k \in 1..50 : CompareQuantile(z, k) >= 0})
         ELSE 49 - Cardinality({k \in 1..49 : CompareQuantile(z, k) > 0})

(***************************************************************************)
(* Core analysis.                                                          *)
(***************************************************************************)
\* freq.get(n, 0) on the defaultdict count_frequencies returns.
FreqGet(freq, n) == IF n \in DOMAIN freq THEN freq[n] ELSE 0

\* freq[n] += 1.
FreqAdd(freq, n) ==
    IF n \in DOMAIN freq THEN [freq EXCEPT ![n] = @ + 1] ELSE freq @@ (n :> 1)

\* The body of the inner loop of count_frequencies for one part.
CountPart(acc, part) ==
    LET p == strip(part) IN
    IF acc.raised \/ ~isdigit(p) THEN acc
    ELSE IF IntRaises(p) THEN [acc EXCEPT !.raised = TRUE]
    ELSE LET n == DecimalValue(p) IN
         IF 1 <= n /\ n <= 80 THEN [acc EXCEPT !.freq = FreqAdd(acc.freq, n)] ELSE acc

RECURSIVE CountParts(_, _, _)
CountParts(acc, parts, i) ==
    IF i > Len(parts) \/ acc.raised THEN acc
    ELSE CountParts(CountPart(acc, parts[i]), parts, i + 1)

\* The counts of two stretches of rows, added; an exception in either leaves the loop.
MergeCounts(a, b) ==
    [raised |-> a.raised \/ b.raised,
     freq |-> [n \in DOMAIN a.freq \cup DOMAIN b.freq |-> FreqGet(a.freq, n) + FreqGet(b.freq, n)]]

NoCounts == [raised |-> FALSE, freq |-> <<>>]

\* The outer loop of count_frequencies over rows lo..hi, taken by halves (the
\* counts add up in any order, and only freq.get reads the dictionary).
RECURSIVE CountRows(_, _, _)
CountRows(df, lo, hi) ==
    IF lo > hi THEN NoCounts
    ELSE IF lo = hi
         THEN CountParts(NoCounts, split(replace(df[lo].Numbers, ",", "-"), "-"), 1)
         ELSE LET mid == (lo + hi) \div 2
              IN  MergeCounts(CountRows(df, lo, mid), CountRows(df, mid + 1, hi))

\* [raised |-> a ValueError left the function, freq |-> the counts].
count_frequencies(df) == CountRows(df, 1, Len(df))

RECURSIVE SumNum(_, _)
SumNum(zs, i) == IF i > Len(zs) THEN 0 ELSE zs[i].num + SumNum(zs, i + 1)

\* sum(all_z) / len(all_z), for z-scores of one radicand.
Mean(all_z) == [num |-> SumNum(all_z, 1), den |-> Len(all_z), rad |-> all_z[1].rad]

\* The two weights exchanged: 0.4 * cluster + 0.6 * z.
WeightedSwapped(cluster, z) ==
    [num |-> 4 * cluster.num + 6 * z.num * cluster.den, den |-> 10 * cluster.den,
     rad |-> z.rad]

\* 0.6 * cluster + 0.4 * z as one fraction.
Weighted(cluster, z) ==
    [num |-> 6 * cluster.num + 4 * z.num * cluster.den, den |-> 10 * cluster.den,
     rad |-> z.rad]

\* Line 109: the z-score of every number.
ZScores(freq, n_games) ==
    [n \in Numbers |-> calculate_z_score(FreqGet(freq, n), n_games)]

\* Lines 111-115: the mean z-score of a number and its neighbors.
ClusterScores(z_scores) ==
    [n \in Numbers |->
        LET neighbors == get_neighbors(n)
            all_z == <<z_scores[n]>> \o
                     [i \in 1..Len(neighbors) |-> z_scores[neighbors[i]]]
        IN  Mean(all_z)]

\* Line 117.
WeightedScores(cluster_scores, z_scores) ==
    [n \in Numbers |-> Weighted(cluster_scores[n], z_scores[n])]

\* A confidence read off a cluster score instead of the number's own z-score.
ConfidenceOfCluster(z_scores) ==
    [n \in Numbers |->
        LET c == ClusterScores(z_scores)[n]
        IN  z_to_confidence([num |-> c.num, rad |-> c.rad * c.den * c.den])]

\* Line 118.
Confidence(z_scores) == [n \in Numbers |-> z_to_confidence(z_scores[n])]

calculate_scores(freq, n_games) ==
    LET z_scores == ZScores(freq, n_games)
        cluster_scores == ClusterScores(z_scores)
    IN  [z_scores |-> z_scores, cluster_scores |-> cluster_scores,
         weighted_scores |-> WeightedScores(cluster_scores, z_scores),
         confidence |-> Confidence(z_scores)]

\* a < b for two scores of one radicand (denominators are positive).
ScoreLess(a, b) == a.num * b.den < b.num * a.den

\* A merge that takes the right run's head on equal keys too: not stable.
RECURSIVE MergeTiesFromRight(_, _, _)
MergeTiesFromRight(left, right, scores) ==
    IF Len(left) = 0 THEN right
    ELSE IF Len(right) = 0 THEN left
    ELSE IF ~ScoreLess(scores[Head(right)], scores[Head(left)])
         THEN <<Head(right)>> \o MergeTiesFromRight(left, Tail(right), scores)
         ELSE <<Head(left)>> \o MergeTiesFromRight(Tail(left), right, scores)

\* The merge step of sorted(..., reverse=True): the right run's head goes first only
\* when its key is larger, so elements with equal keys keep the order they arrived in.
RECURSIVE MergeDescending(_, _, _)
MergeDescending(left, right, scores) ==
    IF Len(left) = 0 THEN right
    ELSE IF Len(right) = 0 THEN left
    ELSE IF ScoreLess(scores[Head(left)], scores[Head(right)])
         THEN <<Head(right)>> \o MergeDescending(left, Tail(right), scores)
         ELSE <<Head(left)>> \o MergeDescending(Tail(left), right, scores)

\* sorted(keys, key=lambda n: scores[n], reverse=True) on the keys lo..hi, which the
\* dictionary holds in ascending order: a stable merge sort.
RECURSIVE SortedDescending(_, _, _)
SortedDescending(lo, hi, scores) ==
    IF lo > hi THEN <<>>
    ELSE IF lo = hi THEN <<lo>>
    ELSE LET mid == (lo + hi) \div 2
         IN  MergeDescending(SortedDescending(lo, mid, scores),
                             SortedDescending(mid + 1, hi, scores), scores)

select_top_10(weighted_scores) ==
    SubSeq(SortedDescending(1, LastNumber, weighted_scores), 1, TopK)

\* region_counts[region] += 1 on a dictionary kept in insertion order.
RegionAdd(region_counts, region) ==
    IF \E i \in 1..Len(region_counts) : region_counts[i].region = region
    THEN [i \in 1..Len(region_counts) |->
            IF region_counts[i].region = region
            THEN [region_counts[i] EXCEPT !.count = @ + 1]
            ELSE region_counts[i]]
    ELSE Append(region_counts, [region |-> region, count |-> 1])

RECURSIVE RegionCounts(_, _)
RegionCounts(top_10, i) ==
    IF i = 0 THEN <<>>
    ELSE RegionAdd(RegionCounts(top_10, i - 1), get_board_region(top_10[i]))

\* A maximum that moves on to a later key of equal count: the last one wins.
RECURSIVE MaxByCountLast(_, _, _)
MaxByCountLast(region_counts, i, best) ==
    IF i > Len(region_counts) THEN best.region
    ELSE MaxByCountLast(region_counts, i + 1,
                        IF region_counts[i].count >= best.count THEN region_counts[i] ELSE best)

\* max(region_counts, key=region_counts.get): the first key, in insertion order,
\* whose count no other key exceeds.
RECURSIVE MaxByCount(_, _, _)
MaxByCount(region_counts, i, best) ==
    IF i > Len(region_counts) THEN best.region
    ELSE MaxByCount(region_counts, i + 1,
                    IF region_counts[i].count > best.count THEN region_counts[i] ELSE best)

find_dominant_cluster_region(top_10) ==
    LET region_counts == RegionCounts(top_10, Len(top_10))
    IN  MaxByCount(region_counts, 2, region_counts[1])

(***************************************************************************)
(* The email.  Here a confidence is an exact whole percent.                *)
(***************************************************************************)
\* Lines 263-265: combined_p *= (1.0 - confidence[n] / 100.0) over qualifying[i..].
RECURSIVE CombinedFrom(_, _, _)
CombinedFrom(qualifying, confidence, i) ==
    IF i > Len(qualifying) THEN [num |-> 1, den |-> 1]
    ELSE LET rest == CombinedFrom(qualifying, confidence, i + 1)
         IN  [num |-> (100 - confidence[qualifying[i]]) * rest.num, den |-> 100 * rest.den]

\* Line 266, f"{combined_p * 100:.2f}": the hundredths of a percent the text can
\* show.  The nearest one; when the exact product lies halfway between two, the
\* rounding error of the double decides, and either may be shown.
Format2f(p) ==
    LET scaled == p.num * 10000
        q == scaled \div p.den
        r == scaled % p.den
    IN  IF 2 * r < p.den THEN {q}
        ELSE IF 2 * r > p.den THEN {q + 1}
        ELSE {q, q + 1}

(***************************************************************************)
(* Loading the stored results.  A stored file is [exists, header, rows]:    *)
(* header tells whether its first line names the columns.  A row is        *)
(* [Game_ID, Numbers], both text, as read_csv(dtype={"Game ID": str})      *)
(* reads them.                                                             *)
(***************************************************************************)
\* df["Game ID"].astype(int) raises on the first identifier int() rejects.
AstypeIntRaises(rows) == \E i \in 1..Len(rows) : IntRaises(rows[i].Game_ID)

AstypeInt(rows) ==
    SubSeq([i \in 1..Len(rows) |->
               [Game_ID |-> DecimalValue(rows[i].Game_ID), Numbers |-> rows[i].Numbers]],
           1, Len(rows))

\* Row j comes before row i in sort_values("Game ID", ascending=True); rows with one
\* identifier are kept in file order.
SortsBefore(rows, j, i) ==
    \/ rows[j].Game_ID < rows[i].Game_ID
    \/ rows[j].Game_ID = rows[i].Game_ID /\ j < i

\* df.sort_values("Game ID", ascending=True): every row at the place given by the
\* number of rows that come before it.
sort_values(rows) ==
    LET n == Len(rows)
        place == SubSeq([i \in 1..n |-> 1 + Cardinality({j \in 1..n : SortsBefore(rows, j, i)})],
                        1, n)
    IN  [k \in 1..n |-> rows[CHOOSE i \in 1..n : place[i] = k]]

\* The first n rows instead of the last n.
head(rows, n) == IF Len(rows) <= n THEN rows ELSE SubSeq(rows, 1, n)

\* df.tail(n).reset_index(drop=True).
tail(rows, n) == IF Len(rows) <= n THEN rows ELSE SubSeq(rows, Len(rows) - n + 1, Len(rows))

\* [kind |-> "None" | "ValueError" | "df", df |-> the window].
load_and_prepare_data(file) ==
    IF ~file.exists THEN [kind |-> "None", df |-> <<>>]
    ELSE IF AstypeIntRaises(file.rows) THEN [kind |-> "ValueError", df |-> <<>>]
    ELSE LET df == sort_values(AstypeInt(file.rows)) IN
         IF Len(df) < MIN_GAMES_REQUIRED THEN [kind |-> "None", df |-> <<>>]
         ELSE [kind |-> "df", df |-> tail(df, GAMES_TO_ANALYZE)]

\* Line 387 (and 261): the top-10 numbers at or above the alert threshold.
Qualifying(top_10, confidence) ==
    SelectSeq(top_10, LAMBDA n : confidence[n] >= ALERT_THRESHOLD)

\* An alert only above the minimum.
AlertDueStrict(qualifying) == Len(qualifying) > MIN_NUMBERS_FOR_ALERT

\* Line 390: the alert decision.
AlertDue(qualifying) == Len(qualifying) >= MIN_NUMBERS_FOR_ALERT

(***************************************************************************)
(* The stored files the model starts from.                                 *)
(***************************************************************************)
RECURSIVE Join(_, _)
Join(nums, sep) ==
    IF Len(nums) = 0 THEN <<>>
    ELSE IF Len(nums) = 1 THEN str(nums[1])
    ELSE str(nums[1]) \o <<sep>> \o Join(Tail(nums), sep)

\* "-,x-81-0- 58 -056-": both delimiters, an empty part, a word, values out of
\* range, padding, a leading zero, a trailing delimiter.
Junk ==
    <<"-", ",", "x", "-", "8", "1", "-", "0", "-", " ", "5", "8", " ", "-",
      "0", "5", "6", "-">>

\* The drawn numbers of the stored files: interior cells no two of which are
\* neighbors.  A number's score is then computed from its own z-score followed by
\* eight equal ones, so two numbers whose exact scores are equal are equal in double
\* precision too, and the exact order of the scores is the order of the doubles.
Lattice == <<12, 14, 16, 18, 32, 34, 36, 38, 52, 54, 56, 58>>

\* <<number, count>> for every lattice number from the from-th on.
Each(from, count) == [i \in 1..(Len(Lattice) - from + 1) |-> <<Lattice[from + i - 1], count>>]

\* A profile gives the Numbers cells of a file: number n with count c is drawn in
\* rows 1..c, which all end with suffix; the rows after the largest count hold fill.
\* bad_id is the row with a non-numeric Game ID (0: none).
Profiles ==
    << \* three numbers just above the alert threshold, nine just below
       [counts |-> << <<12, 31>>, <<14, 31>>, <<16, 31>> >> \o Each(4, 30),
        sep |-> "-", suffix |-> <<>>, fill |-> str(0), bad_id |-> 0],
       \* two numbers just above the alert threshold
       [counts |-> << <<12, 31>>, <<14, 31>> >> \o Each(3, 30),
        sep |-> ",", suffix |-> <<>>, fill |-> str(0), bad_id |-> 0],
       \* all counts different among the first ten, two regions with two numbers each
       [counts |-> << <<12, 40>>, <<32, 39>>, <<34, 38>>, <<14, 37>>, <<16, 36>>, <<18, 35>>,
                      <<36, 34>>, <<38, 33>>, <<56, 32>>, <<58, 31>>, <<52, 30>>, <<54, 30>> >>,
        sep |-> "-", suffix |-> <<>>, fill |-> str(0), bad_id |-> 0],
       \* malformed number lists
       [counts |-> << <<12, 33>>, <<14, 33>>, <<16, 32>>, <<18, 32>>, <<32, 32>>, <<34, 31>>,
                      <<36, 31>>, <<38, 30>>, <<52, 30>>, <<54, 30>> >>,
        sep |-> ",", suffix |-> Junk, fill |-> <<"x">>, bad_id |-> 0],
       \* a superscript digit in the number lists that follow the drawn ones
       [counts |-> Each(1, 30),
        sep |-> "-", suffix |-> <<>>, fill |-> <<"1", "2", "-", SuperscriptTwo>>, bad_id |-> 0],
       \* a non-numeric identifier
       [counts |-> Each(1, 30),
        sep |-> "-", suffix |-> <<>>, fill |-> str(0), bad_id |-> 2] >>

\* The numbers a profile draws in row i, in the order it lists them.
DrawnAt(profile, i) ==
    LET drawn == SelectSeq(profile.counts, LAMBDA e : e[2] >= i)
    IN  [k \in 1..Len(drawn) |-> drawn[k][1]]

NumbersAt(profile, i) ==
    IF Len(DrawnAt(profile, i)) > 0
    THEN Join(DrawnAt(profile, i), profile.sep) \o profile.suffix
    ELSE profile.fill

\* Row i of a file: identifiers are consecutive.
StoredRow(profile, i) ==
    [Game_ID |-> IF i = profile.bad_id THEN <<"x">> ELSE str(FirstGameId + i),
     Numbers |-> NumbersAt(profile, i)]

\* A file of len rows, oldest first or newest first.
StoredFile(profile, len, newest_first) ==
    [exists |-> TRUE, header |-> TRUE,
     rows |-> [i \in 1..len |-> StoredRow(profile, IF newest_first THEN len + 1 - i ELSE i)]]

NoFile == [exists |-> FALSE, header |-> FALSE, rows |-> <<>>]

StoredFiles ==
    {NoFile} \cup
    {StoredFile(Profiles[p], len, nf) :
        p \in 1..Len(Profiles),
        len \in (MIN_GAMES_REQUIRED - 1)..(MIN_GAMES_REQUIRED + MaxExtra),
        nf \in BOOLEAN}

(***************************************************************************)
(* State.                                                                  *)
(***************************************************************************)
VARIABLES
    csv,              \* results.csv
    pc,               \* where run_analyzer stands
    outcome,          \* how the run ended: "Skipped", "Completed" or the exception
    raised_in,        \* the function an exception left
    df,               \* the analysis window
    n_games,
    freq,
    z_scores,
    cluster_scores,
    weighted_scores,
    confidence,
    top_10,
    dominant_region,
    heatmap,          \* generate_heatmap has run
    qualifying,
    alert,            \* send_email has been called
    email_sent,       \* send_email returned True
    number,           \* the argument of a call of a board function
    neighbors,        \* get_neighbors(number), once called
    region,           \* get_board_region(number), once called
    invocation,       \* which call of run_analyzer this is, in one process
    first,            \* what the first call produced, once a second one has begun
    combined_p,       \* build_email_html: the product [num, den], once computed
    verdict,          \* build_email_html: the verdict sentence of the email
    site,             \* the draws page as one run of the scraper finds it
    run,              \* which run of the scraper this is
    existing_ids,
    seen_ids_this_run,
    all_collected,
    attempt,          \* the loop variable of the collection loop
    offset,           \* how many games lie before the first row of the table
    passes,           \* calls of extract_visible_games in this run
    ended,            \* why the run stopped browsing
    saved,            \* what save_new_games returned (-1: nothing yet)
    save_calls        \* calls of save_new_games in this run

analysis == <<df, n_games, freq, z_scores, cluster_scores, weighted_scores, confidence,
              top_10, dominant_region, heatmap, qualifying, alert, email_sent>>
board == <<number, neighbors, region>>
history == <<invocation, first>>
email == <<combined_p, verdict>>
scraper == <<site, run, existing_ids, seen_ids_this_run, all_collected, attempt, offset,
             passes, ended, saved, save_calls>>
vars == <<csv, pc, outcome, raised_in, analysis, board, history, email, scraper>>

\* Nothing of the analysis has been computed.
NothingComputed ==
    /\ df = <<>> /\ n_games = 0 /\ freq = <<>>
    /\ z_scores = <<>> /\ cluster_scores = <<>> /\ weighted_scores = <<>>
    /\ confidence = <<>> /\ top_10 = <<>> /\ dominant_region = ""
    /\ heatmap = FALSE /\ qualifying = <<>> /\ alert = FALSE /\ email_sent = FALSE

NoBoardCall == number = 0 /\ neighbors = <<>> /\ region = ""

\* run_analyzer has been called once, and nothing is kept of an earlier call.
FirstCall == invocation = 1 /\ first = <<>>

\* build_email_html has not been called.
NoEmail == combined_p = <<>> /\ verdict = <<>>

\* A run of the scraper before its first statement.
RunNotBegun ==
    /\ site = <<>> /\ existing_ids = {} /\ seen_ids_this_run = {} /\ all_collected = <<>>
    /\ attempt = 0 /\ offset = 0 /\ passes = 0 /\ ended = "" /\ saved = -1 /\ save_calls = 0

\* The scraper has not been started.
NoScraper == run = 0 /\ RunNotBegun

Init ==
    /\ csv \in StoredFiles
    /\ pc = "load" /\ outcome = "" /\ raised_in = ""
    /\ NothingComputed
    /\ NoBoardCall
    /\ FirstCall
    /\ NoEmail
    /\ NoScraper

(***************************************************************************)
(* run_analyzer, statement by statement.                                   *)
(***************************************************************************)
\* Lines 366-368.
Load ==
    /\ pc = "load"
    /\ LET r == load_and_prepare_data(csv) IN
        /\ df' = r.df
        /\ pc' = IF r.kind = "df" THEN "count" ELSE "done"
        /\ outcome' = IF r.kind = "df" THEN "" ELSE IF r.kind = "None" THEN "Skipped" ELSE r.kind
        /\ raised_in' = IF r.kind = "ValueError" THEN "load_and_prepare_data" ELSE ""
    /\ UNCHANGED <<csv, n_games, freq, z_scores, cluster_scores, weighted_scores, confidence,
                   top_10, dominant_region, heatmap, qualifying, alert, email_sent, board, history, email, scraper>>

\* Lines 370-371.
Count ==
    /\ pc = "count"
    /\ LET r == count_frequencies(df) IN
        /\ n_games' = Len(df)
        /\ freq' = IF r.raised THEN freq ELSE r.freq
        /\ pc' = IF r.raised THEN "done" ELSE "scores"
        /\ outcome' = IF r.raised THEN "ValueError" ELSE ""
        /\ raised_in' = IF r.raised THEN "count_frequencies" ELSE ""
    /\ UNCHANGED <<csv, df, z_scores, cluster_scores, weighted_scores, confidence,
                   top_10, dominant_region, heatmap, qualifying, alert, email_sent, board, history, email, scraper>>

\* Line 373.
Scores ==
    /\ pc = "scores"
    /\ LET r == calculate_scores(freq, n_games) IN
        /\ z_scores' = r.z_scores
        /\ cluster_scores' = r.cluster_scores
        /\ weighted_scores' = r.weighted_scores
        /\ confidence' = r.confidence
    /\ pc' = "select"
    /\ UNCHANGED <<csv, outcome, raised_in, df, n_games, freq,
                   top_10, dominant_region, heatmap, qualifying, alert, email_sent, board, history, email, scraper>>

\* Line 374.
Select ==
    /\ pc = "select"
    /\ top_10' = select_top_10(weighted_scores)
    /\ pc' = "region"
    /\ UNCHANGED <<csv, outcome, raised_in, df, n_games, freq, z_scores, cluster_scores,
                   weighted_scores, confidence, dominant_region, heatmap, qualifying,
                   alert, email_sent, board, history, email, scraper>>

\* Line 375.
Region ==
    /\ pc = "region"
    /\ dominant_region' = find_dominant_cluster_region(top_10)
    /\ pc' = "heatmap"
    /\ UNCHANGED <<csv, outcome, raised_in, df, n_games, freq, z_scores, cluster_scores,
                   weighted_scores, confidence, top_10, heatmap, qualifying,
                   alert, email_sent, board, history, email, scraper>>

\* Line 385: the heatmap is drawn whatever the alert decision will be.
Heatmap ==
    /\ pc = "heatmap"
    /\ heatmap' = TRUE
    /\ pc' = "qualify"
    /\ UNCHANGED <<csv, outcome, raised_in, df, n_games, freq, z_scores, cluster_scores,
                   weighted_scores, confidence, top_10, dominant_region, qualifying,
                   alert, email_sent, board, history, email, scraper>>

\* Line 387.
Qualify ==
    /\ pc = "qualify"
    /\ qualifying' = Qualifying(top_10, confidence)
    /\ pc' = "alert"
    /\ UNCHANGED <<csv, outcome, raised_in, df, n_games, freq, z_scores, cluster_scores,
                   weighted_scores, confidence, top_10, dominant_region, heatmap,
                   alert, email_sent, board, history, email, scraper>>

\* An alert decision that remembers an alert already raised by an earlier call.
AlertOnce ==
    /\ pc = "alert"
    /\ alert' = (AlertDue(qualifying) /\ ~(first # <<>> /\ first.alert))
    /\ \E sent \in BOOLEAN : email_sent' = (alert' /\ sent)
    /\ pc' = "done"
    /\ outcome' = "Completed"
    /\ UNCHANGED <<csv, raised_in, df, n_games, freq, z_scores, cluster_scores,
                   weighted_scores, confidence, top_10, dominant_region, heatmap,
                   qualifying, board, history, email, scraper>>

\* Lines 390-398.  send_email returns False without credentials or when the
\* SMTP exchange fails (it catches the exception), True otherwise.
Alert ==
    /\ pc = "alert"
    /\ alert' = AlertDue(qualifying)
    /\ \E sent \in BOOLEAN : email_sent' = (AlertDue(qualifying) /\ sent)
    /\ pc' = "done"
    /\ outcome' = "Completed"
    /\ UNCHANGED <<csv, raised_in, df, n_games, freq, z_scores, cluster_scores,
                   weighted_scores, confidence, top_10, dominant_region, heatmap,
                   qualifying, board, history, email, scraper>>

Next == Load \/ Count \/ Scores \/ Select \/ Region \/ Heatmap \/ Qualify \/ Alert

Spec == Init /\ [][Next]_vars

(***************************************************************************)
(* run_analyzer called a second time on the same stored file.              *)
(***************************************************************************)
\* What a call of run_analyzer has produced when it ends.
Result ==
    [outcome |-> outcome, raised_in |-> raised_in, n_games |-> n_games, freq |-> freq,
     z_scores |-> z_scores, cluster_scores |-> cluster_scores,
     weighted_scores |-> weighted_scores, confidence |-> confidence,
     top_10 |-> top_10, dominant_region |-> dominant_region,
     qualifying |-> qualifying, alert |-> alert]

\* Line 361, entered again: every local of run_analyzer is fresh, results.csv is
\* what it was.
Again ==
    /\ pc = "done" /\ invocation = 1
    /\ invocation' = 2
    /\ first' = Result
    /\ pc' = "load" /\ outcome' = "" /\ raised_in' = ""
    /\ df' = <<>> /\ n_games' = 0 /\ freq' = <<>>
    /\ z_scores' = <<>> /\ cluster_scores' = <<>> /\ weighted_scores' = <<>>
    /\ confidence' = <<>> /\ top_10' = <<>> /\ dominant_region' = ""
    /\ heatmap' = FALSE /\ qualifying' = <<>> /\ alert' = FALSE /\ email_sent' = FALSE
    /\ UNCHANGED <<csv, board, email, scraper>>

NextTwice == Next \/ Again

SpecTwice == Init /\ [][NextTwice]_vars

(***************************************************************************)
(* run_analyzer on stored files about as long as the analysis window.      *)
(***************************************************************************)
LongFiles ==
    {StoredFile(Profiles[p], len, nf) :
        p \in 1..Len(Profiles),
        len \in (GAMES_TO_ANALYZE - 1)..(GAMES_TO_ANALYZE + MaxOver),
        nf \in BOOLEAN}

InitWindow ==
    /\ csv \in LongFiles
    /\ pc = "load" /\ outcome = "" /\ raised_in = ""
    /\ NothingComputed
    /\ NoBoardCall
    /\ FirstCall
    /\ NoEmail
    /\ NoScraper

SpecWindow == InitWindow /\ [][Next]_vars

(***************************************************************************)
(* build_email_html, called on its own.                                    *)
(***************************************************************************)
\* The confidences given to the numbers of the list that may qualify.
ConfidenceLevels == {89, 90, 95, 99, 100}

\* A confidence table: the first MaxConfident numbers of top at the levels given,
\* one number outside the list above the threshold, every other number below it.
ConfidenceTable(top, levels) ==
    [n \in Numbers |->
        IF \E i \in 1..MaxConfident : top[i] = n
        THEN levels[CHOOSE i \in 1..MaxConfident : top[i] = n]
        ELSE IF n = LastNumber THEN 99 ELSE 50 + (n % 10)]

InitEmail ==
    /\ csv = NoFile
    /\ pc = "email" /\ outcome = "" /\ raised_in = ""
    /\ df = <<>> /\ n_games = MIN_GAMES_REQUIRED /\ freq = <<>>
    /\ z_scores = <<>> /\ cluster_scores = <<>> /\ weighted_scores = <<>>
    /\ top_10 = SubSeq(Lattice, 1, TopK)
    /\ \E levels \in [1..MaxConfident -> ConfidenceLevels] :
           confidence = ConfidenceTable(top_10, levels)
    /\ dominant_region = find_dominant_cluster_region(top_10)
    /\ heatmap = TRUE /\ qualifying = <<>> /\ alert = FALSE /\ email_sent = FALSE
    /\ NoBoardCall
    /\ FirstCall
    /\ NoEmail
    /\ NoScraper

\* Lines 260-268.
BuildEmailHtml ==
    /\ pc = "email"
    /\ qualifying' = Qualifying(top_10, confidence)
    /\ IF Len(qualifying') > 0
       THEN /\ combined_p' = CombinedFrom(qualifying', confidence, 1)
            /\ \E shown \in Format2f(combined_p') :
                   verdict' = [kind |-> "chance", hundredths |-> shown]
       ELSE /\ combined_p' = <<>>
            /\ verdict' = [kind |-> "elevated"]
    /\ pc' = "done"
    /\ UNCHANGED <<csv, outcome, raised_in, df, n_games, freq, z_scores, cluster_scores,
                   weighted_scores, confidence, top_10, dominant_region, heatmap,
                   alert, email_sent, board, history, scraper>>

NextEmail == BuildEmailHtml

SpecEmail == InitEmail /\ [][NextEmail]_vars

(***************************************************************************)
(* The board functions, called on their own for any number of the board.   *)
(***************************************************************************)
InitBoard ==
    /\ csv = NoFile
    /\ pc = "board" /\ outcome = "" /\ raised_in = ""
    /\ NothingComputed
    /\ number \in Numbers /\ neighbors = <<>> /\ region = ""
    /\ FirstCall
    /\ NoEmail
    /\ NoScraper

\* Lines 44-54.
GetNeighbors ==
    /\ pc = "board" /\ neighbors = <<>>
    /\ neighbors' = get_neighbors(number)
    /\ UNCHANGED <<csv, pc, outcome, raised_in, analysis, number, region, history, email, scraper>>

\* Lines 56-60.
GetBoardRegion ==
    /\ pc = "board" /\ region = ""
    /\ region' = get_board_region(number)
    /\ UNCHANGED <<csv, pc, outcome, raised_in, analysis, number, neighbors, history, email, scraper>>

NextBoard == GetNeighbors \/ GetBoardRegion

SpecBoard == InitBoard /\ [][NextBoard]_vars

(***************************************************************************)
(* The scraper (src/scraper.py).  A game is [Game_ID, Numbers], both text; *)
(* the timestamps the scraper stores with it play no part in what it       *)
(* keeps.                                                                  *)
(***************************************************************************)
TARGET_GAME_COUNT == 150
MAX_NAV_ATTEMPTS == 20
\* Line 135: how often click_back_button looks for a changed table.
Polls == 15

\* Runs of the scraper one after the other.
MaxRuns == 2
\* The newest game of the site when the first run begins.
NewestAtFirstRun == 1300
\* Games drawn between one run and the next.
NewGames == 3

GameIds(rows) == {rows[i].Game_ID : i \in 1..Len(rows)}

\* F(e), with e evaluated once.
With(e, F(_)) == CHOOSE r \in {F(x) : x \in {e}} : TRUE

\* Lines 22-30.  read_csv raises EmptyDataError on a file without any line, and
\* df["Game ID"] raises KeyError when the first line does not name the columns;
\* both are caught and leave the empty set.
load_existing_ids(file) ==
    IF ~file.exists THEN {}
    ELSE IF ~file.header THEN {}
    ELSE {strip(file.rows[i].Game_ID) : i \in 1..Len(file.rows)}

\* Line 44: the rows whose identifier is not among ids.
NotIn(rows, ids) == SelectSeq(rows, LAMBDA g : g.Game_ID \notin ids)

\* Line 45, df.drop_duplicates(subset=["Game ID"]): of the rows with one identifier
\* the first is kept.
drop_duplicates(rows) ==
    IF Cardinality(GameIds(rows)) = Len(rows) THEN rows
    ELSE LET keep == {i \in 1..Len(rows) :
                         \A j \in 1..(i - 1) : rows[j].Game_ID # rows[i].Game_ID}
         IN  [k \in 1..Cardinality(keep) |->
                 rows[CHOOSE i \in keep : Cardinality({j \in keep : j < i}) = k - 1]]

\* The place of a character isdigit accepts in the order of the code points.
CharCode(c) == IF IsDecimalChar(c) THEN DigitValue(c) + 1 ELSE 11

\* A number that orders texts of at most width characters as Python orders strings.
RECURSIVE TextKey(_, _, _, _)
TextKey(s, i, width, acc) ==
    IF i > width THEN acc
    ELSE TextKey(s, i + 1, width, acc * 12 + (IF i <= Len(s) THEN CharCode(s[i]) ELSE 0))

\* The keys of the identifiers of rows, all of one width.
TextKeys(rows) ==
    LET n == Len(rows)
        width == CHOOSE w \in {Len(rows[i].Game_ID) : i \in 1..n} :
                     \A i \in 1..n : Len(rows[i].Game_ID) <= w
    IN  SubSeq([i \in 1..n |-> TextKey(rows[i].Game_ID, 1, width, 0)], 1, n)

\* The place of every row in the ascending order of the keys; rows with one key stay
\* in the order they have.
Places(key) ==
    SubSeq([i \in 1..Len(key) |->
               1 + Cardinality({j \in 1..Len(key) :
                                   key[j] < key[i] \/ (key[j] = key[i] /\ j < i)})],
           1, Len(key))

\* Line 52, df_new.sort_values("Game ID", ascending=True), on identifiers that are
\* text.
sort_by_text(rows) ==
    With(TextKeys(rows), LAMBDA key :
        With(Places(key), LAMBDA place :
            SubSeq([k \in 1..Len(rows) |-> rows[CHOOSE i \in 1..Len(rows) : place[i] = k]],
                   1, Len(rows))))

\* Lines 36-57: [file |-> results.csv afterwards, count |-> the value returned].
save_new_games(new_games, ids, file) ==
    IF Len(new_games) = 0 THEN [file |-> file, count |-> 0]
    ELSE With(drop_duplicates(NotIn(new_games, ids)), LAMBDA df_new :
             IF Len(df_new) = 0 THEN [file |-> file, count |-> 0]
             ELSE [file |-> [exists |-> TRUE,
                             header |-> IF file.exists THEN file.header ELSE TRUE,
                             rows |-> file.rows \o sort_by_text(df_new)],
                   count |-> Len(df_new)])

\* The numbers of a game, as line 79 joins them.
NumbersOfGame(id) == Join(<<(id % LastNumber) + 1>>, "-")

\* The rows of the draws table: a page of site.size games, the newest first, under a
\* row that is no game when the site shows one.  Cells come with padding.
PageRows(s, newest, before) ==
    (IF s.banner THEN <<[Game_ID |-> <<"G", "a", "m", "e">>, Numbers |-> <<>>]>> ELSE <<>>)
    \o SubSeq([j \in 1..s.size |->
                  [Game_ID |-> <<" ">> \o str(newest - before - j + 1) \o <<" ">>,
                   Numbers |-> NumbersOfGame(newest - before - j + 1)]], 1, s.size)

\* Lines 63-94.
extract_visible_games(rows) ==
    SelectSeq(SubSeq([i \in 1..Len(rows) |->
                         [Game_ID |-> strip(rows[i].Game_ID), Numbers |-> rows[i].Numbers]],
                     1, Len(rows)),
              LAMBDA g : isdigit(g.Game_ID))

\* Lines 101-153, for the first selector that finds a link: button is "missing" when
\* no selector finds one, "disabled" when its class says so, and lag is the number of
\* polls after which the first row of the table has changed.
click_back_button(button, lag) ==
    IF button = "missing" THEN FALSE
    ELSE IF button = "disabled" THEN FALSE
    ELSE lag <= Polls

\* What a run finds: whether the page opens ("ok", "error", "no_table"), the size of
\* a page, how many games a click goes back, and the pass at which going back fails
\* (0: never) with the way it fails.
Site(size, stride, banner, opens, fails_at, failure, lag) ==
    [size |-> size, stride |-> stride, banner |-> banner, opens |-> opens,
     fails_at |-> fails_at, failure |-> failure, lag |-> lag]

Sites ==
    { Site(100, 100, FALSE, "ok", 0, "", 1),
      Site(10, 10, TRUE, "ok", 0, "", Polls),
      Site(10, 5, FALSE, "ok", 0, "", 1),
      Site(10, 10, FALSE, "ok", 2, "disabled", 1),
      Site(10, 5, FALSE, "ok", 1, "missing", 1),
      Site(10, 10, FALSE, "ok", 3, "unchanged", 1),
      Site(10, 10, FALSE, "ok", 2, "error", 1),
      Site(10, 10, FALSE, "error", 0, "", 1),
      Site(10, 10, FALSE, "no_table", 0, "", 1) }

ButtonAt(s, pass) == IF pass = s.fails_at /\ s.failure # "unchanged" THEN s.failure ELSE "ok"

LagAt(s, pass) == IF pass = s.fails_at /\ s.failure = "unchanged" THEN Polls + 1 ELSE s.lag

Newest(r) == NewestAtFirstRun + (r - 1) * NewGames

\* results.csv before the first run: none, one without any line, one that holds the
\* games before the newest two, one of them with padding.
EmptyFile == [exists |-> TRUE, header |-> FALSE, rows |-> <<>>]

SeedFile ==
    [exists |-> TRUE, header |-> TRUE,
     rows |-> [i \in 1..6 |->
                  [Game_ID |-> IF i = 3 THEN <<" ">> \o str(NewestAtFirstRun - 8 + i)
                               ELSE str(NewestAtFirstRun - 8 + i),
                   Numbers |-> NumbersOfGame(NewestAtFirstRun - 8 + i)]]]

ScraperFiles == {NoFile, EmptyFile, SeedFile}

InitScraper ==
    /\ csv \in ScraperFiles
    /\ pc = "start" /\ outcome = "" /\ raised_in = ""
    /\ NothingComputed
    /\ NoBoardCall
    /\ FirstCall
    /\ NoEmail
    /\ run = 1 /\ RunNotBegun

\* Lines 161-168.
StartRun ==
    /\ pc = "start"
    /\ site' \in Sites
    /\ existing_ids' = load_existing_ids(csv)
    /\ all_collected' = <<>>
    /\ pc' = "browse"
    /\ UNCHANGED <<csv, outcome, raised_in, analysis, board, history, email, run,
                   seen_ids_this_run, attempt, offset, passes, ended, saved, save_calls>>

\* Lines 170-215: the page is opened; an exception goes to line 243, a table that
\* never appears to the return of line 208.
Browse ==
    /\ pc = "browse"
    /\ IF site.opens = "ok"
       THEN /\ seen_ids_this_run' = {}
            /\ attempt' = 1
            /\ pc' = "extract"
            /\ UNCHANGED ended
       ELSE /\ ended' = site.opens
            /\ pc' = "close"
            /\ UNCHANGED <<seen_ids_this_run, attempt>>
    /\ UNCHANGED <<csv, outcome, raised_in, analysis, board, history, email, site, run,
                   existing_ids, all_collected, offset, passes, saved, save_calls>>

\* Lines 217-235: one pass up to the test of the target.
Extract ==
    /\ pc = "extract"
    /\ \E rows \in {PageRows(site, Newest(run), offset)} :
       \E page_games \in {extract_visible_games(rows)} :
       \E fresh \in {drop_duplicates(NotIn(page_games, seen_ids_this_run))} :
           /\ seen_ids_this_run' = seen_ids_this_run \cup GameIds(fresh)
           /\ all_collected' = all_collected \o fresh
    /\ passes' = passes + 1
    /\ IF Len(all_collected') >= TARGET_GAME_COUNT
       THEN ended' = "target" /\ pc' = "close"
       ELSE pc' = "click" /\ UNCHANGED ended
    /\ UNCHANGED <<csv, outcome, raised_in, analysis, board, history, email, site, run,
                   existing_ids, attempt, offset, saved, save_calls>>

\* As Click, without the end of range(1, MAX_NAV_ATTEMPTS + 1).
ClickOnAndOn ==
    /\ pc = "click"
    /\ IF ButtonAt(site, attempt) = "error"
       THEN /\ ended' = "error" /\ pc' = "close"
            /\ UNCHANGED <<attempt, offset>>
       ELSE IF ~click_back_button(ButtonAt(site, attempt), LagAt(site, attempt))
       THEN /\ ended' = "no_back" /\ pc' = "close"
            /\ UNCHANGED <<attempt, offset>>
       ELSE /\ offset' = offset + site.stride
            /\ attempt' = attempt + 1 /\ pc' = "extract" /\ UNCHANGED ended
    /\ UNCHANGED <<csv, outcome, raised_in, analysis, board, history, email, site, run,
                   existing_ids, seen_ids_this_run, all_collected, passes, saved, save_calls>>

\* Lines 238-241 and the step of the loop at line 217; an exception that leaves the
\* body of the loop goes to line 243.
Click ==
    /\ pc = "click"
    /\ IF ButtonAt(site, attempt) = "error"
       THEN /\ ended' = "error" /\ pc' = "close"
            /\ UNCHANGED <<attempt, offset>>
       ELSE IF ~click_back_button(ButtonAt(site, attempt), LagAt(site, attempt))
       THEN /\ ended' = "no_back" /\ pc' = "close"
            /\ UNCHANGED <<attempt, offset>>
       ELSE /\ offset' = offset + site.stride
            /\ IF attempt = MAX_NAV_ATTEMPTS
               THEN ended' = "attempts" /\ pc' = "close" /\ UNCHANGED attempt
               ELSE attempt' = attempt + 1 /\ pc' = "extract" /\ UNCHANGED ended
    /\ UNCHANGED <<csv, outcome, raised_in, analysis, board, history, email, site, run,
                   existing_ids, seen_ids_this_run, all_collected, passes, saved, save_calls>>

\* Lines 243-246: the browser is closed; after the return of line 208 the run is over.
Close ==
    /\ pc = "close"
    /\ pc' = IF ended = "no_table" THEN "done" ELSE "save"
    /\ UNCHANGED <<csv, outcome, raised_in, analysis, board, history, email, scraper>>

\* Lines 249-251.
Save ==
    /\ pc = "save"
    /\ \E r \in {save_new_games(all_collected, existing_ids, csv)} :
           csv' = r.file /\ saved' = r.count
    /\ save_calls' = save_calls + 1
    /\ pc' = "done"
    /\ UNCHANGED <<outcome, raised_in, analysis, board, history, email, site, run,
                   existing_ids, seen_ids_this_run, all_collected, attempt, offset,
                   passes, ended>>

RunStep == StartRun \/ Browse \/ Extract \/ Click \/ Close \/ Save

\* The scraper is started again once it has ended; games have been drawn meanwhile.
NextRun ==
    /\ pc = "done" /\ run < MaxRuns
    /\ run' = run + 1
    /\ pc' = "start"
    /\ site' = <<>> /\ existing_ids' = {} /\ seen_ids_this_run' = {} /\ all_collected' = <<>>
    /\ attempt' = 0 /\ offset' = 0 /\ passes' = 0 /\ ended' = "" /\ saved' = -1
    /\ save_calls' = 0
    /\ UNCHANGED <<csv, outcome, raised_in, analysis, board, history, email>>

NextScraper == RunStep \/ NextRun

SpecScraper == InitScraper /\ [][NextScraper]_vars

\* One run: every step of it is taken once it can be, each wait of the code having a
\* timeout.
SpecCollect == InitScraper /\ [][RunStep]_vars /\ WF_vars(RunStep)

(***************************************************************************)
(* The board as the specification describes it.                            *)
(***************************************************************************)
Range(seq) == {seq[i] : i \in 1..Len(seq)}

\* position(n): row = (n - 1) div 10, col = (n - 1) mod 10.
RowOf(n) == (n - 1) \div 10
ColOf(n) == (n - 1) % 10

Near(a, b) == a - b \in {-1, 0, 1}

\* The numbers one step away from n in row and in column, n itself left out.
Adjacent(n) ==
    {m \in Numbers \ {n} : Near(RowOf(m), RowOf(n)) /\ Near(ColOf(m), ColOf(n))}

Corners == {1, 10, 71, 80}

OnBorder(n) == RowOf(n) \in {0, 7} \/ ColOf(n) \in {0, 9}

VerticalBand(row) ==
    CASE row \in 0..2 -> "Top" [] row \in 3..4 -> "Middle" [] row \in 5..7 -> "Bottom"

HorizontalBand(col) ==
    CASE col \in 0..3 -> "Left" [] col \in 4..5 -> "Center" [] col \in 6..9 -> "Right"

(***************************************************************************)
(* C1.                                                                     *)
(***************************************************************************)
\* C1: a run on a stored file of exactly MIN_GAMES_REQUIRED records ends completed,
\* with the window counted, scored, ranked and drawn; a run on a file of one record
\* fewer ends skipped with nothing counted, scored, ranked, drawn or sent.
C1_Boundary ==
    pc = "done" /\ csv.exists =>
        /\ Len(csv.rows) = MIN_GAMES_REQUIRED =>
               /\ outcome = "Completed"
               /\ n_games = MIN_GAMES_REQUIRED
               /\ Len(top_10) = TopK
               /\ heatmap
        /\ Len(csv.rows) = MIN_GAMES_REQUIRED - 1 =>
               /\ outcome = "Skipped"
               /\ NothingComputed

(***************************************************************************)
(* C2.                                                                     *)
(***************************************************************************)
\* C2: a run ends either skipped, exactly when the file is missing or holds fewer
\* than MIN_GAMES_REQUIRED records, and then with nothing computed, or completed with
\* the full ranked result; it never ends with an exception.
C2_TerminalOutcomes ==
    pc = "done" =>
        /\ outcome \in {"Skipped", "Completed"}
        /\ outcome = "Skipped" <=> (~csv.exists \/ Len(csv.rows) < MIN_GAMES_REQUIRED)
        /\ outcome = "Skipped" => NothingComputed
        /\ outcome = "Completed" => Len(top_10) = TopK /\ dominant_region # "" /\ heatmap

(***************************************************************************)
(* C3.                                                                     *)
(***************************************************************************)
\* The number a token stands for when it is made of the digits 0..9 only, else 0.
TokenValue(token) ==
    IF Len(token) > 0 /\ \A i \in 1..Len(token) : IsDecimalChar(token[i])
    THEN DecimalValue(token)
    ELSE 0

\* The values of the tokens of one number list, the padding around a token left out.
RowValues(text) ==
    LET parts == split(replace(text, ",", "-"), "-")
    IN  SubSeq([i \in 1..Len(parts) |-> TokenValue(strip(parts[i]))], 1, Len(parts))

\* How many tokens of rows lo..hi stand for n.
RECURSIVE Hits(_, _, _, _)
Hits(values, n, lo, hi) ==
    IF lo > hi THEN 0
    ELSE IF lo = hi THEN Cardinality({i \in 1..Len(values[lo]) : values[lo][i] = n})
    ELSE LET mid == (lo + hi) \div 2
         IN  Hits(values, n, lo, mid) + Hits(values, n, mid + 1, hi)

\* C3: count_frequencies never raises, and the count it returns for every number
\* 1..80 is the number of tokens of the window that are made of decimal digits only
\* and have that value; every other token changes no count.
C3_CountFrequencies ==
    /\ raised_in # "count_frequencies"
    /\ pc = "scores" =>
           LET values == SubSeq([r \in 1..Len(df) |-> RowValues(df[r].Numbers)], 1, Len(df))
           IN  \A n \in Numbers : FreqGet(freq, n) = Hits(values, n, 1, Len(df))

(***************************************************************************)
(* C4.                                                                     *)
(***************************************************************************)
SameScore(a, b) ==
    /\ ~ScoreLess(weighted_scores[a], weighted_scores[b])
    /\ ~ScoreLess(weighted_scores[b], weighted_scores[a])

\* a ranks before b: a higher weighted score, or the same score and a lower number.
RanksBefore(a, b) ==
    \/ ScoreLess(weighted_scores[b], weighted_scores[a])
    \/ SameScore(a, b) /\ a < b

\* C4: the list select_top_10 returns holds TopK numbers of the board, every one of
\* them ranking before the ones after it and before every number left out, where a
\* higher weighted score ranks first and, of two equal scores, the lower number.
C4_TopTen ==
    top_10 # <<>> =>
        /\ Len(top_10) = TopK
        /\ Range(top_10) \subseteq Numbers
        /\ \A i, j \in 1..Len(top_10) : i < j => RanksBefore(top_10[i], top_10[j])
        /\ \A i \in 1..Len(top_10) :
               \A m \in Numbers \ Range(top_10) : RanksBefore(top_10[i], m)

\* A list with two members of one score, and a number left out whose score is that
\* of the last member.
C4_Witness ==
    /\ Len(top_10) = TopK
    /\ \E i \in 1..(TopK - 1) : SameScore(top_10[i], top_10[i + 1])
    /\ \E m \in Numbers \ Range(top_10) : SameScore(top_10[TopK], m)

(***************************************************************************)
(* C5.                                                                     *)
(***************************************************************************)
\* How many of the first k numbers of top lie in region r.
Tally(top, r, k) == Cardinality({i \in 1..k : get_board_region(top[i]) = r})

RegionsOf(top) == {get_board_region(top[i]) : i \in 1..Len(top)}

MaxTally(top) ==
    CHOOSE t \in 1..Len(top) :
        /\ \E r \in RegionsOf(top) : Tally(top, r, Len(top)) = t
        /\ \A r \in RegionsOf(top) : Tally(top, r, Len(top)) <= t

\* The region whose running tally is the first to reach the maximal tally.
FirstToReachMax(top) ==
    LET reached(k) == Tally(top, get_board_region(top[k]), k) = MaxTally(top)
        k == CHOOSE k \in 1..Len(top) : reached(k) /\ \A j \in 1..(k - 1) : ~reached(j)
    IN  get_board_region(top[k])

\* The region of maximal tally whose first number ranks highest.
FirstRankedOfMax(top) ==
    LET maximal(k) == Tally(top, get_board_region(top[k]), Len(top)) = MaxTally(top)
        k == CHOOSE k \in 1..Len(top) : maximal(k) /\ \A j \in 1..(k - 1) : ~maximal(j)
    IN  get_board_region(top[k])

\* C5 (as stated): the region find_dominant_cluster_region returns has the maximal
\* tally among the top numbers and, of the regions that share it, is the one whose
\* running tally reaches the maximum first in rank order.
C5_FirstToReachMax ==
    dominant_region # "" =>
        /\ Tally(top_10, dominant_region, Len(top_10)) = MaxTally(top_10)
        /\ dominant_region = FirstToReachMax(top_10)

\* C5 (amended): the region find_dominant_cluster_region returns has the maximal
\* tally among the top numbers and, of the regions that share it, is the one that
\* appears first in rank order, that is the region of the highest-ranked number.
C5_FirstRankedOfMax ==
    dominant_region # "" =>
        /\ Tally(top_10, dominant_region, Len(top_10)) = MaxTally(top_10)
        /\ dominant_region = FirstRankedOfMax(top_10)

\* Two regions share the maximal tally, and the one that appears first is not the
\* one that reaches the maximum first.
C5_Witness ==
    /\ dominant_region # ""
    /\ FirstToReachMax(top_10) # FirstRankedOfMax(top_10)

(***************************************************************************)
(* C6.                                                                     *)
(***************************************************************************)
\* C6: in a completed run the qualifying list holds exactly the top numbers whose
\* confidence is at least ALERT_THRESHOLD, each once; send_email is called if and
\* only if they are at least MIN_NUMBERS_FOR_ALERT, and no email is sent otherwise.
C6_Alert ==
    outcome = "Completed" =>
        LET above == {n \in Range(top_10) : confidence[n] >= ALERT_THRESHOLD}
        IN  /\ Range(qualifying) = above
            /\ Len(qualifying) = Cardinality(above)
            /\ alert <=> Cardinality(above) >= MIN_NUMBERS_FOR_ALERT
            /\ email_sent => alert

\* A completed run that alerted on exactly the minimum of qualifying numbers.
C6_Witness ==
    outcome = "Completed" /\ alert /\ Len(qualifying) = MIN_NUMBERS_FOR_ALERT

(***************************************************************************)
(* C7.                                                                     *)
(***************************************************************************)
\* C7: once get_neighbors(number) has returned, its result holds exactly the numbers
\* of the board one step away from number in row and in column, number itself left
\* out, each once: 3 of them at a corner, 5 at any other border number, 8 inside,
\* and {2, 11, 12} for number 1.
C7_Neighbors ==
    neighbors # <<>> =>
        /\ Range(neighbors) = Adjacent(number)
        /\ Cardinality(Range(neighbors)) = Len(neighbors)
        /\ Len(neighbors) = IF number \in Corners THEN 3
                            ELSE IF OnBorder(number) THEN 5 ELSE 8
        /\ number = 1 => Range(neighbors) = {2, 11, 12}

\* get_neighbors has returned for the corner number 10, whose right-hand offsets
\* leave the board.
C7_Witness == number = 10 /\ Len(neighbors) = 3

(***************************************************************************)
(* C8.                                                                     *)
(***************************************************************************)
\* C8: once get_board_region(number) has returned, its result is "<V>-<H>" with V
\* the band of the row (Top 0-2, Middle 3-4, Bottom 5-7) and H the band of the
\* column (Left 0-3, Center 4-5, Right 6-9); the function takes exactly 9 values on
\* the board; 1 is Top-Left, 80 Bottom-Right and 45 Middle-Center.
C8_Region ==
    region # "" =>
        /\ region = VerticalBand(RowOf(number)) \o "-" \o HorizontalBand(ColOf(number))
        /\ number = 1 => region = "Top-Left"
        /\ number = 80 => region = "Bottom-Right"
        /\ number = 45 => region = "Middle-Center"
        /\ Cardinality({get_board_region(n) : n \in Numbers}) = 9

\* get_board_region has returned for 45, on the last row of the Middle band and
\* the first column of the Center band.
C8_Witness == number = 45 /\ region = "Middle-Center"

(***************************************************************************)
(* C9.                                                                     *)
(***************************************************************************)
RECURSIVE SumOfZ(_, _)
SumOfZ(group, zs) ==
    IF group = {} THEN 0
    ELSE LET m == CHOOSE m \in group : TRUE
         IN  zs[m].num + SumOfZ(group \ {m}, zs)

\* C9: for every number, the cluster score calculate_scores returns is the sum of
\* the z-scores of the number and of the numbers adjacent to it, divided by how many
\* they are (4 at a corner, 6 on the border, 9 inside), and the weighted score is
\* 0.6 times the cluster score plus 0.4 times the number's z-score.
C9_Scores ==
    weighted_scores # <<>> =>
        \A n \in Numbers :
            LET group == Adjacent(n) \cup {n}
                c == cluster_scores[n]
                z == z_scores[n]
                w == weighted_scores[n]
            IN  /\ c.den = Cardinality(group)
                /\ c.den = IF n \in Corners THEN 4 ELSE IF OnBorder(n) THEN 6 ELSE 9
                /\ c.num = SumOfZ(group, z_scores)
                /\ c.rad = z.rad /\ w.rad = z.rad
                /\ 10 * c.den * w.num = w.den * (6 * c.num + 4 * z.num * c.den)

\* Scores of a window in which a corner, a border number and an inside number each
\* have a cluster score that is not their own z-score.
C9_Witness ==
    /\ weighted_scores # <<>>
    /\ \A n \in {1, 2, 12} : cluster_scores[n].num # cluster_scores[n].den * z_scores[n].num

(***************************************************************************)
(* C10.                                                                    *)
(***************************************************************************)
\* The count table with the count of every number adjacent to n replaced by d.
WithNeighborCounts(table, n, d) ==
    [m \in Numbers |-> IF m \in Adjacent(n) THEN d ELSE FreqGet(table, m)]

\* C10: the confidence calculate_scores returns for a number is the confidence of
\* the z-score of that number's own count in the window, and is the same for every
\* count table of the window that differs only in the counts of the adjacent numbers.
C10_Confidence ==
    pc = "select" =>
        \A n \in Numbers :
            /\ confidence[n] = z_to_confidence(calculate_z_score(FreqGet(freq, n), n_games))
            /\ \A d \in {0, n_games} :
                   calculate_scores(WithNeighborCounts(freq, n, d), n_games).confidence[n]
                       = confidence[n]

\* A number above the alert threshold whose weighted score changes with the counts
\* of the adjacent numbers while its confidence does not.
C10_Witness ==
    /\ pc = "select"
    /\ \E n \in {12} :
           LET other == calculate_scores(WithNeighborCounts(freq, n, n_games), n_games)
           IN  /\ confidence[n] >= ALERT_THRESHOLD
               /\ other.weighted_scores[n] # weighted_scores[n]
               /\ other.confidence[n] = confidence[n]

StoredRecords ==
    SubSeq([i \in 1..Len(csv.rows) |->
               [Game_ID |-> DecimalValue(csv.rows[i].Game_ID),
                Numbers |-> csv.rows[i].Numbers]],
           1, Len(csv.rows))

\* The stored records that fewer than GAMES_TO_ANALYZE others exceed in identifier.
MostRecent ==
    LET all == StoredRecords
    IN  {all[i] : i \in {i \in 1..Len(all) :
            Cardinality({j \in 1..Len(all) : all[j].Game_ID > all[i].Game_ID})
                < GAMES_TO_ANALYZE}}

\* C12: the window load_and_prepare_data returns holds exactly the GAMES_TO_ANALYZE
\* stored records of greatest identifier (all of them when there are fewer), in
\* ascending order of the identifier read as an integer, whatever the order of the
\* file; n_games is the length of that window and is the number of trials of every
\* z-score.
C12_Window ==
    /\ pc = "count" =>
           /\ Range(df) = MostRecent
           /\ Len(df) = Cardinality(MostRecent)
           /\ \A k \in 1..(Len(df) - 1) : df[k].Game_ID <= df[k + 1].Game_ID
    /\ pc \in {"scores", "select"} => n_games = Len(df)
    /\ pc = "select" =>
           \A n \in Numbers : z_scores[n] = calculate_z_score(FreqGet(freq, n), Len(df))

\* A file of one record more than the window, newest record first, has been loaded,
\* counted and scored.
C12_Witness ==
    /\ pc = "select"
    /\ Len(csv.rows) = GAMES_TO_ANALYZE + 1
    /\ n_games = GAMES_TO_ANALYZE
    /\ DecimalValue(csv.rows[1].Game_ID) > DecimalValue(csv.rows[2].Game_ID)

(***************************************************************************)
(* C13.                                                                    *)
(***************************************************************************)
\* The numbers of the top list whose confidence is at least the threshold.
AboveThreshold == {n \in Range(top_10) : confidence[n] >= ALERT_THRESHOLD}

\* The product of (1 - confidence / 100) over a set of numbers, as [num, den].
RECURSIVE RarityOf(_)
RarityOf(group) ==
    IF group = {} THEN [num |-> 1, den |-> 1]
    ELSE LET n == CHOOSE n \in group : TRUE
             rest == RarityOf(group \ {n})
         IN  [num |-> (100 - confidence[n]) * rest.num, den |-> 100 * rest.den]

\* The product build_email_html computes, before it is written into the text, is the
\* product of (1 - confidence / 100) over exactly the numbers above the threshold.
CombinedIsRarity ==
    combined_p # <<>> =>
        combined_p.num * RarityOf(AboveThreshold).den
            = RarityOf(AboveThreshold).num * combined_p.den

\* C13: the combined rarity the email reports is, as a percentage, the product of
\* (1 - confidence / 100) over exactly the numbers of the top list whose confidence
\* is at least the threshold: 0.0125 % for three numbers at 95 %.
C13_CombinedRarity ==
    verdict # <<>> /\ verdict.kind = "chance" =>
        verdict.hundredths * RarityOf(AboveThreshold).den
            = RarityOf(AboveThreshold).num * 10000

(***************************************************************************)
(* C14.                                                                    *)
(***************************************************************************)
\* The identifiers of the rows of a stored file, as load_existing_ids reads them.
IdsOnDisk(file) == {strip(file.rows[i].Game_ID) : i \in 1..Len(file.rows)}

NoDuplicateIds(file) == Cardinality(IdsOnDisk(file)) = Len(file.rows)

\* The rows a step has added to results.csv.
Appended == SubSeq(csv'.rows, Len(csv.rows) + 1, Len(csv'.rows))

\* A step leaves no identifier twice in results.csv nor among the games collected,
\* and the call of save_new_games appends games of the batch, each once, none of
\* them on disk before, and returns how many.
KeepsIdsApart ==
    /\ NoDuplicateIds(csv')
    /\ Cardinality(GameIds(all_collected')) = Len(all_collected')
    /\ pc = "save" =>
          /\ \A g \in Range(Appended) : g \in Range(all_collected) /\ g.Game_ID \notin IdsOnDisk(csv)
          /\ Cardinality(GameIds(Appended)) = Len(Appended)
          /\ saved' = Len(Appended)

\* C14: after any sequence of runs of the scraper, one after the other, from a
\* results file without duplicate identifiers, no two rows of results.csv have the
\* same Game ID: a run collects an identifier at most once, and save_new_games
\* appends only games that are neither on disk when the run begins nor repeated in
\* the batch, and returns the number of rows it appended.
C14_NoDuplicates == [][KeepsIdsApart]_vars

\* The same of the steps that begin with results.csv absent or with its header line.
NoDuplicatesUnderHeader == [][(csv.exists => csv.header) => KeepsIdsApart]_vars

(***************************************************************************)
(* C15.                                                                    *)
(***************************************************************************)
\* click_back_button succeeds at a pass of the site.
GoesBack(s, pass) == click_back_button(ButtonAt(s, pass), LagAt(s, pass))

\* The loop has made at most MAX_NAV_ATTEMPTS passes; it goes on only below the
\* target and after clicks that succeeded; it has ended for the reason it records;
\* and once a run that reached line 243 or left the loop is over, all the games it
\* collected have been passed to save_new_games in the one call made.
CollectionBounded ==
    /\ passes <= MAX_NAV_ATTEMPTS
    /\ save_calls <= 1
    /\ pc \in {"extract", "click"} =>
          /\ Len(all_collected) < TARGET_GAME_COUNT
          /\ \A p \in 1..(attempt - 1) : GoesBack(site, p)
    /\ ended = "target" => Len(all_collected) >= TARGET_GAME_COUNT
    /\ ended = "no_back" => ~GoesBack(site, attempt)
    /\ ended = "attempts" => passes = MAX_NAV_ATTEMPTS
    /\ pc \in {"close", "save"} => save_calls = 0
    /\ pc = "done" /\ ended # "no_table" =>
          /\ save_calls = 1
          /\ saved = Cardinality(GameIds(all_collected) \ existing_ids)

\* C15: the collection loop always ends: it makes at most MAX_NAV_ATTEMPTS passes,
\* stops as soon as TARGET_GAME_COUNT games are collected or click_back_button
\* fails (no button, a disabled one, or a table unchanged after 15 polls), and in
\* each case, an exception while browsing included, the games collected are then
\* passed to save_new_games exactly once.
C15_CollectionEnds == []CollectionBounded /\ <>(pc = "done")

\* A run that used up its passes on overlapping pages and saved what it had.
C15_Witness ==
    /\ pc = "done" /\ ended = "attempts"
    /\ passes = MAX_NAV_ATTEMPTS /\ Len(all_collected) < TARGET_GAME_COUNT
    /\ save_calls = 1 /\ saved > 0

====
